---- MODULE Spec2Model ----
(***************************************************************************)
(* Model of the cross-field core of contrib/QuadMeshingTools               *)
(* (qmt_cross_field.cpp): the adjacency builder, the system compactor and  *)
(* the heat-diffusion driver.                                              *)
(*                                                                         *)
(* Vectors (std::vector, std::array) are functions over 0..n-1, so that    *)
(* the index arithmetic of the source (3*t+lf, 2*e+1, ...) is kept as     *)
(* written.                                                                *)
(***************************************************************************)
EXTENDS Integers, Sequences, FiniteSets, TLC

(***************************************************************************)
(* Bounds of the model.                                                    *)
(***************************************************************************)
\* number of triangles of an input triangle soup
MaxTris == 3
\* number of proper vertex ids (0..MaxVtx-1) of an input triangle soup
MaxVtx == 3
\* width, in bits, of the modelled vertex/edge id type (uint32_t in the code)
IdBits == 6
\* system compactor alone: number of coupling entries and of diagonal seeds
\* of an input
MaxCoefs == 2
MaxDiag == 1
\* the triangles and the lines of a mesh given to the driver
DrvMaxTris == 2
DrvMaxLines == 1

(***************************************************************************)
(* Vectors.                                                                *)
(***************************************************************************)
Size(v) == Cardinality(DOMAIN v)

EmptyVec == << >>

PushBack(v, x) == v @@ (Size(v) :> x)

\* vector::resize(n, fill): keeps the first n elements, pads with fill
Resize(v, n, fill) == [k \in 0..(n - 1) |-> IF k < Size(v) THEN v[k] ELSE fill]

Vec2(a, b) == [k \in 0..1 |-> IF k = 0 THEN a ELSE b]

Vec3(a, b, c) == [k \in 0..2 |-> IF k = 0 THEN a ELSE IF k = 1 THEN b ELSE c]


(***************************************************************************)
(* Ids.  NO_ID is (id) -1, the largest value of the id type.               *)
(***************************************************************************)
NO_ID == 2^IdBits - 1

NBF == 3

\* sorted(v1, v2), and std::sort on a two-element face
sorted(v1, v2) == IF v1 < v2 THEN Vec2(v1, v2) ELSE Vec2(v2, v1)

\* operator< of std::array<id,2>: lexicographic
id2Less(a, b) == a[0] < b[0] \/ (a[0] = b[0] /\ a[1] < b[1])

(***************************************************************************)
(* sort_unique_with_perm(faces, uIEdges, old2IEdge): the distinct faces in *)
(* ascending order, and for every face its index among them.               *)
(***************************************************************************)
UniqueSorted(faces) ==
  LET S == {faces[p] : p \in DOMAIN faces}
      rank(f) == Cardinality({g \in S : id2Less(g, f)})
  IN  [k \in 0..(Cardinality(S) - 1) |-> CHOOSE f \in S : rank(f) = k]

Old2New(faces, uniq) ==
  [p \in DOMAIN faces |-> CHOOSE k \in DOMAIN uniq : uniq[k] = faces[p]]

(***************************************************************************)
(* compute_triangle_adjacencies                                            *)
(***************************************************************************)
\* the element 'faces', with duplicates: one sorted vertex pair per
\* (triangle, local edge)
ElementFaces(tris) ==
  [p \in 0..(NBF * Size(tris) - 1) |->
     sorted(tris[p \div NBF][p % NBF], tris[p \div NBF][((p % NBF) + 1) % NBF])]

\* the 'unique face to elements' mapping: resize(nbUniques), then one
\* push_back per (triangle, local edge) in ascending facePos order
RECURSIVE FillEdgeToOld(_, _, _)
FillEdgeToOld(e2o, old2new, p) ==
  IF p >= Size(old2new) THEN e2o
  ELSE FillEdgeToOld([e2o EXCEPT ![old2new[p]] = PushBack(@, p)], old2new, p + 1)

\* the siblings of occurrence j of a non manifold face
RECURSIVE NmNeighsWithSelf(_, _, _, _)
NmNeighsWithSelf(occ, j, k, acc) ==
  IF k >= Size(occ) THEN acc
  ELSE NmNeighsWithSelf(occ, j, k + 1, PushBack(acc, occ[k]))

RECURSIVE NmNeighs(_, _, _, _)
NmNeighs(occ, j, k, acc) ==
  IF k >= Size(occ) THEN acc
  ELSE NmNeighs(occ, j, k + 1,
                IF occ[k] # occ[j] THEN PushBack(acc, occ[k]) ELSE acc)

\* the loop over the occurrences of a non manifold face
RECURSIVE NmLoop(_, _, _, _)
NmLoop(occ, j, tn, nm) ==
  IF j >= Size(occ) THEN [tn |-> tn, nm |-> nm]
  ELSE LET e   == occ[j] \div NBF
           lf  == occ[j] % NBF
           pos == Size(nm)
       IN  NmLoop(occ, j + 1,
                  [tn EXCEPT ![e][lf] = -(pos + 1)],
                  PushBack(nm, NmNeighs(occ, j, 0, EmptyVec)))

NO_FACE == Vec2(NO_ID, NO_ID)

\* the two tests that make the function return false
InvalidFaceFirstOnly(f) == f[0] = NO_ID

InvalidFace(f) == f[0] = NO_ID \/ f[1] = NO_ID

\* a face with one occurrence: boundary
BoundaryFaceSelf(occ, tn) ==
  LET eltId == occ[0] \div NBF
      lf    == occ[0] % NBF
  IN  [tn EXCEPT ![eltId][lf] = NBF * eltId + lf]

BoundaryFace(occ, tn) ==
  LET eltId == occ[0] \div NBF
      lf    == occ[0] % NBF
  IN  [tn EXCEPT ![eltId][lf] = NO_ID]

\* a face with two occurrences: regular face
RegularFaceOneWay(occ, tn) ==
  LET e1  == occ[0] \div NBF
      lf1 == occ[0] % NBF
      e2  == occ[1] \div NBF
      lf2 == occ[1] % NBF
  IN  [tn EXCEPT ![e1][lf1] = NBF * e2 + lf2]

RegularFace(occ, tn) ==
  LET e1  == occ[0] \div NBF
      lf1 == occ[0] % NBF
      e2  == occ[1] \div NBF
      lf2 == occ[1] % NBF
  IN  [[tn EXCEPT ![e1][lf1] = NBF * e2 + lf2] EXCEPT ![e2][lf2] = NBF * e1 + lf1]

\* the loop over the unique faces, from face i on
RECURSIVE AdjLoop(_, _, _, _, _)
AdjLoopNm(uniq, e2o, i, r) == AdjLoop(uniq, e2o, i + 1, r.tn, r.nm)

AdjLoop(uniq, e2o, i, tn, nm) ==
  IF i >= Size(uniq) THEN [ok |-> TRUE, tn |-> tn, nm |-> nm]
  ELSE IF uniq[i] = NO_FACE THEN AdjLoop(uniq, e2o, i + 1, tn, nm)
  ELSE IF InvalidFace(uniq[i]) THEN [ok |-> FALSE, tn |-> tn, nm |-> nm]
  ELSE IF Size(e2o[i]) = 1 THEN
         AdjLoop(uniq, e2o, i + 1, BoundaryFace(e2o[i], tn), nm)
  ELSE IF Size(e2o[i]) = 2 THEN
         AdjLoop(uniq, e2o, i + 1, RegularFace(e2o[i], tn), nm)
  ELSE IF Size(e2o[i]) > 2 THEN
         AdjLoopNm(uniq, e2o, i, NmLoop(e2o[i], 0, tn, nm))
  ELSE AdjLoop(uniq, e2o, i + 1, tn, nm)

\* triangle_neighbors.resize(triangles.size(), {NO_ID,NO_ID,NO_ID}) after clear()
InitialNeighbors(tris) == [t \in DOMAIN tris |-> Vec3(NO_ID, NO_ID, NO_ID)]

AdjResult(r, uniq, old2new, e2o) ==
  [ok |-> r.ok, triangle_neighbors |-> r.tn, nm_triangle_neighbors |-> r.nm,
   uIEdges |-> uniq, old2IEdge |-> old2new, uIEdgeToOld |-> e2o]

AdjFromTables(tris, uniq, old2new, e2o) ==
  AdjResult(AdjLoop(uniq, e2o, 0, InitialNeighbors(tris), EmptyVec),
            uniq, old2new, e2o)

AdjFromPerm(tris, e2oIn, uniq, old2new) ==
  AdjFromTables(tris, uniq, old2new,
                FillEdgeToOld(Resize(e2oIn, Size(uniq), EmptyVec), old2new, 0))

AdjFromUnique(tris, e2oIn, faces, uniq) ==
  AdjFromPerm(tris, e2oIn, uniq, Old2New(faces, uniq))

AdjFromFaces(tris, e2oIn, faces) ==
  AdjFromUnique(tris, e2oIn, faces, UniqueSorted(faces))

\* the whole function; e2oIn is the caller's uIEdgeToOld, which the
\* function resizes but does not clear
compute_triangle_adjacencies(tris, e2oIn) ==
  AdjFromFaces(tris, e2oIn, ElementFaces(tris))

(***************************************************************************)
(* Numbers.  A double is modelled exactly as n/d + e*EPS: a rational part  *)
(* and a whole number of EPS (1.e-14).  The rational parts that occur are  *)
(* either 0 or larger than EPS by many orders of magnitude, and e stays    *)
(* small, so that the comparison with EPS is decided by the two parts.     *)
(***************************************************************************)
Abs(a) == IF a < 0 THEN -a ELSE a

RECURSIVE GCD(_, _)
GCD(a, b) == IF b = 0 THEN a ELSE GCD(b, a % b)

\* a double that is not a finite number: the result of a division by zero
\* and of every operation on it
NaN == [n |-> 0, d |-> 0, e |-> 0]

\* the double n/d + e*EPS, in lowest terms; a zero denominator gives NaN
Num(n, d, e) ==
  IF d = 0 THEN NaN
  ELSE LET g == GCD(Abs(n), Abs(d))
           sg == IF d < 0 THEN -1 ELSE 1
       IN  [n |-> (sg * n) \div g, d |-> (sg * d) \div g, e |-> e]

\* a whole number as a double
I(n) == [n |-> n, d |-> 1, e |-> 0]

Zero == [n |-> 0, d |-> 1, e |-> 0]

One == [n |-> 1, d |-> 1, e |-> 0]

MinusOne == [n |-> -1, d |-> 1, e |-> 0]

\* the constant EPS itself
EPS == [n |-> 0, d |-> 1, e |-> 1]

\* a + b over the least common denominator, g being the greatest common
\* divisor of the two denominators
NumAddOver(a, b, g) ==
  Num(a.n * (b.d \div g) + b.n * (a.d \div g), a.d * (b.d \div g), a.e + b.e)

NumAdd(a, b) ==
  IF a.d = 0 \/ b.d = 0 THEN NaN ELSE NumAddOver(a, b, GCD(a.d, b.d))

NumNeg(a) == [n |-> -a.n, d |-> a.d, e |-> -a.e]

\* products and quotients are only taken of doubles without an EPS part
NumMul(a, b) == Num(a.n * b.n, a.d * b.d, 0)

NumDiv(a, b) == Num(a.n * b.d, a.d * b.n, 0)

\* std::abs(a) >= EPS (false of NaN)
AbsAtLeastEps(a) == a.d # 0 /\ (a.n # 0 \/ Abs(a.e) >= 1)

\* std::abs(a) > EPS (false of NaN)
AbsAboveEps(a) == a.d # 0 /\ (a.n # 0 \/ Abs(a.e) > 1)

(***************************************************************************)
(* prepare_system                                                          *)
(***************************************************************************)
\* IJV::operator<
IJVLess(a, b) == a.ij[0] < b.ij[0] \/ (a.ij[0] = b.ij[0] /\ a.ij[1] < b.ij[1])

\* coefs = K_coefs followed by one (i,i,val) per diagonal seed
ConcatCoefs(K_diag, K_coefs) ==
  K_coefs @@
  [k \in Size(K_coefs)..(Size(K_coefs) + Size(K_diag) - 1) |->
     [ij  |-> Vec2(K_diag[k - Size(K_coefs)].i, K_diag[k - Size(K_coefs)].i),
      val |-> K_diag[k - Size(K_coefs)].val]]

\* the number of entries that come before entry k in the sorted order
Rank(coefs, k) ==
  Cardinality({m \in DOMAIN coefs :
                 \/ IJVLess(coefs[m], coefs[k])
                 \/ (~IJVLess(coefs[k], coefs[m]) /\ m < k)})

SortByRank(coefs, ranked) ==
  [p \in DOMAIN coefs |-> coefs[(CHOOSE q \in ranked : q[1] = p)[2]]]

\* std::sort(coefs.begin(), coefs.end()): entry k goes to the position given
\* by its rank
SortCoefs(coefs) ==
  SortByRank(coefs, {<<Rank(coefs, k), k>> : k \in DOMAIN coefs})

\* if (std::abs(acc_val) > EPS) { columns[cur_i].push_back(cur_j); ... }
FlushAlways(out, cur_i, cur_j, acc_val) ==
  [columns |-> [out.columns EXCEPT ![cur_i] = PushBack(@, cur_j)],
   values  |-> [out.values  EXCEPT ![cur_i] = PushBack(@, acc_val)]]

FlushAtLeastEps(out, cur_i, cur_j, acc_val) ==
  IF AbsAtLeastEps(acc_val)
  THEN [columns |-> [out.columns EXCEPT ![cur_i] = PushBack(@, cur_j)],
        values  |-> [out.values  EXCEPT ![cur_i] = PushBack(@, acc_val)]]
  ELSE out

Flush(out, cur_i, cur_j, acc_val) ==
  IF AbsAboveEps(acc_val)
  THEN [columns |-> [out.columns EXCEPT ![cur_i] = PushBack(@, cur_j)],
        values  |-> [out.values  EXCEPT ![cur_i] = PushBack(@, acc_val)]]
  ELSE out

\* the loop over the sorted entries, from entry k on, and the final flush;
\* the rows are those of columns (a row index beyond them is not modelled)
RECURSIVE PrepLoop(_, _, _, _, _, _)
PrepLoop(coefs, k, cur_i, cur_j, acc_val, out) ==
  IF cur_i \notin DOMAIN out.columns THEN out
  ELSE IF k >= Size(coefs) THEN Flush(out, cur_i, cur_j, acc_val)
  ELSE LET i == coefs[k].ij[0]
           j == coefs[k].ij[1]
           v == coefs[k].val
       IN  IF i # cur_i
           THEN PrepLoop(coefs, k + 1, i, j, v, Flush(out, cur_i, cur_j, acc_val))
           ELSE IF j # cur_j
           THEN PrepLoop(coefs, k + 1, i, j, v, Flush(out, cur_i, cur_j, acc_val))
           ELSE PrepLoop(coefs, k + 1, cur_i, cur_j, NumAdd(acc_val, v), out)

PrepFromSorted(coefs, columns, values) ==
  PrepLoop(coefs, 1, coefs[0].ij[0], coefs[0].ij[1], coefs[0].val,
           [columns |-> columns, values |-> values])

\* the whole function; it reads coefs[0], so one of K_diag, K_coefs must not
\* be empty
prepare_system(K_diag, K_coefs, columns, values) ==
  PrepFromSorted(SortCoefs(ConcatCoefs(K_diag, K_coefs)), columns, values)

(***************************************************************************)
(* Geometry.  The points of the mesh lie on the integer lattice of the     *)
(* plane z = 0, so that squared lengths, dot and cross products are whole  *)
(* numbers, the length of a normal is a whole number, and the cosines and  *)
(* cotangents that the assembly needs are rational.                        *)
(***************************************************************************)
\* M.points: the corners of the unit square, and a point on the line
\* through the first two
points ==
  [v \in 0..4 |->
     IF v = 0 THEN Vec3(0, 0, 0)
     ELSE IF v = 1 THEN Vec3(1, 0, 0)
     ELSE IF v = 2 THEN Vec3(1, 1, 0)
     ELSE IF v = 3 THEN Vec3(0, 1, 0)
     ELSE Vec3(2, 0, 0)]

VSub(a, b) == Vec3(a[0] - b[0], a[1] - b[1], a[2] - b[2])

cross(a, b) ==
  Vec3(a[1] * b[2] - a[2] * b[1], a[2] * b[0] - a[0] * b[2], a[0] * b[1] - a[1] * b[0])

dot(a, b) == a[0] * b[0] + a[1] * b[1] + a[2] * b[2]

\* the square of length(a)
length2(a) == dot(a, a)

\* length(a) of a vector whose squared length is a perfect square
RECURSIVE ISqrtBetween(_, _, _)
ISqrtBetween(n, lo, hi) ==
  IF lo >= hi THEN lo
  ELSE IF ((lo + hi + 1) \div 2) * ((lo + hi + 1) \div 2) <= n
  THEN ISqrtBetween(n, (lo + hi + 1) \div 2, hi)
  ELSE ISqrtBetween(n, lo, ((lo + hi + 1) \div 2) - 1)

ISqrt(n) == ISqrtBetween(n, 0, IF n < 46340 THEN n ELSE 46340)

\* the vector N of triangle_area and triangle_normal, before normalization
TriangleCross(tris, t) ==
  cross(VSub(points[tris[t][2]], points[tris[t][0]]),
        VSub(points[tris[t][1]], points[tris[t][0]]))

\* length(N) / 2.
triangle_area(tris, t) == Num(ISqrt(length2(TriangleCross(tris, t))), 2, 0)

\* triangle_normal: the direction of the unit normal; of a triangle whose
\* normal is shorter than EPS, the placeholder {DBL_MAX,DBL_MAX,DBL_MAX}
\* (small: TRUE, the error being logged), whose direction is (1,1,1)
triangle_normal(tris, t) ==
  IF length2(TriangleCross(tris, t)) = 0
  THEN [small |-> TRUE, dir |-> Vec3(1, 1, 1)]
  ELSE [small |-> FALSE, dir |-> TriangleCross(tris, t)]

(***************************************************************************)
(* stiffness_coefficient                                                   *)
(***************************************************************************)
VNeg(a) == Vec3(-a[0], -a[1], -a[2])

EdgeVector(uniq, e) == VSub(points[uniq[e][1]], points[uniq[e][0]])

\* the normal N used for incident triangle s of an edge with occurrences occ:
\* the second one is negated when its dot product with the first is negative
IncidentNormal(tris, occ, s) ==
  LET n0 == triangle_normal(tris, occ[0] \div 3)
      n1 == triangle_normal(tris, occ[1] \div 3)
  IN  IF s = 0 THEN n0
      ELSE IF dot(n0.dir, n1.dir) < 0
      THEN [small |-> n1.small, dir |-> VNeg(n1.dir)]
      ELSE n1

\* ae: the k-th other edge of incident triangle s
OtherEdge(old2new, occ, s, k) ==
  old2new[3 * (occ[s] \div 3) + (((occ[s] % 3) + 1 + k) % 3)]

\* the sign of the cosine of agl in the four cases of the shared endpoint;
\* 0 when the two edges share no endpoint ("should not happen")
SharedEndpointSign(aedge, v1, v2) ==
  IF aedge[0] = v1 THEN 1
  ELSE IF aedge[1] = v1 THEN -1
  ELSE IF aedge[0] = v2 THEN -1
  ELSE IF aedge[1] = v2 THEN 1
  ELSE 0

\* what the body of the loop over the two other edges computes for (s, k):
\* whether it returns false, the neighbor edge, cos and sin of 4*alpha, and
\* the weight -2/tan(agl).  With E the edge vector, U the neighbor's and
\* Y = N x E the direction of e_y:
\*   cx = U.E/(|U||E|), cy = U.Y/(|U||Y|), cos(agl) = +-cx,
\*   sin(agl) = |U x E|/(|U||E|),
\*   cos 4a = 1 - 8 cx^2 cy^2, sin 4a = 4 cx cy (cx^2 - cy^2).
\* With the placeholder normal cy is not a number, and so is alpha.
NeighborTerm(tris, uniq, old2new, occ, e, s, k) ==
  LET E    == EdgeVector(uniq, e)
      N    == IncidentNormal(tris, occ, s)
      Y    == cross(N.dir, E)
      ae   == OtherEdge(old2new, occ, s, k)
      U    == EdgeVector(uniq, ae)
      sgn  == SharedEndpointSign(uniq[ae], uniq[e][0], uniq[e][1])
      cx2  == Num(dot(U, E) * dot(U, E), length2(U) * length2(E), 0)
      cy2  == Num(dot(U, Y) * dot(U, Y), length2(U) * length2(Y), 0)
      cxcy == Num(dot(U, E) * dot(U, Y),
                  length2(U) * ISqrt(length2(E) * length2(Y)), 0)
  IN  [fail |-> length2(Y) = 0 \/ length2(U) = 0 \/ sgn = 0,
       ae   |-> ae,
       c4   |-> IF N.small THEN NaN
                ELSE NumAdd(One, NumMul(I(-8), NumMul(cx2, cy2))),
       s4   |-> IF N.small THEN NaN
                ELSE NumMul(I(4), NumMul(cxcy, NumAdd(cx2, NumNeg(cy2)))),
       w    |-> Num(-2 * sgn * dot(U, E), ISqrt(length2(cross(U, E))), 0)]

\* CR_weight[k] = CR_weight[k] / isum
NormalizedWeight(T, isum) == NumDiv(T.w, isum)

\* the four 2x2 coupling blocks
CouplingBlock(e, T, isum) ==
  LET x_i == 2 * e
      y_i == 2 * e + 1
      x_j == 2 * T.ae
      y_j == 2 * T.ae + 1
      w   == NormalizedWeight(T, isum)
  IN  << [ij |-> Vec2(x_i, x_j), val |-> NumMul(w, T.c4)],
         [ij |-> Vec2(x_i, y_j), val |-> NumMul(NumMul(w, MinusOne), T.s4)],
         [ij |-> Vec2(y_i, x_j), val |-> NumMul(w, T.s4)],
         [ij |-> Vec2(y_i, y_j), val |-> NumMul(w, T.c4)] >>

\* isum = -1. * (CR_weight[0] + CR_weight[1] + CR_weight[2] + CR_weight[3])
StiffnessSum(T0, T1, T2, T3) ==
  NumMul(MinusOne, NumAdd(NumAdd(NumAdd(T0.w, T1.w), T2.w), T3.w))

StiffnessOutput(e, T0, T1, T2, T3, isum) ==
  LET ijv == CouplingBlock(e, T0, isum) \o CouplingBlock(e, T1, isum)
               \o CouplingBlock(e, T2, isum) \o CouplingBlock(e, T3, isum)
  IN  [ok  |-> TRUE,
       iv  |-> Vec2([i |-> 2 * e, val |-> One], [i |-> 2 * e + 1, val |-> One]),
       ijv |-> [k \in 0..15 |-> ijv[k + 1]]]

StiffnessFromTerms(e, T0, T1, T2, T3) ==
  IF T0.fail \/ T1.fail \/ T2.fail \/ T3.fail
  THEN [ok |-> FALSE, iv |-> EmptyVec, ijv |-> EmptyVec]
  ELSE StiffnessOutput(e, T0, T1, T2, T3, StiffnessSum(T0, T1, T2, T3))

\* the whole function: false when the edge has not two occurrences, when
\* it or one of its four neighbor edges is shorter than EPS, when e_y is,
\* or when a neighbor edge shares no endpoint with it
stiffness_coefficient(tris, e, uniq, old2new, e2o) ==
  IF Size(e2o[e]) # 2 THEN [ok |-> FALSE, iv |-> EmptyVec, ijv |-> EmptyVec]
  ELSE IF length2(EdgeVector(uniq, e)) = 0
  THEN [ok |-> FALSE, iv |-> EmptyVec, ijv |-> EmptyVec]
  ELSE StiffnessFromTerms(e,
         NeighborTerm(tris, uniq, old2new, e2o[e], e, 0, 0),
         NeighborTerm(tris, uniq, old2new, e2o[e], e, 0, 1),
         NeighborTerm(tris, uniq, old2new, e2o[e], e, 1, 0),
         NeighborTerm(tris, uniq, old2new, e2o[e], e, 1, 1))

(***************************************************************************)
(* compute_cross_field_with_heat: boundary conditions and assembly         *)
(***************************************************************************)
\* std::find(uIEdges.begin(), uIEdges.end(), edge) - uIEdges.begin()
Find(uniq, edge) ==
  IF \E e \in DOMAIN uniq : uniq[e] = edge
  THEN CHOOSE e \in DOMAIN uniq :
         uniq[e] = edge /\ \A f \in DOMAIN uniq : uniq[f] = edge => e <= f
  ELSE Size(uniq)

MarkBoundaryNone(e2o) ==
  [dirichletEdge |-> [e \in DOMAIN e2o |-> FALSE], nbc |-> 0]

\* every unique edge that has not exactly two occurrences is a Dirichlet edge
MarkBoundary(e2o) ==
  [dirichletEdge |-> [e \in DOMAIN e2o |-> Size(e2o[e]) # 2],
   nbc |-> Cardinality({e \in DOMAIN e2o : Size(e2o[e]) # 2})]

\* so is every unique edge that a line of the mesh lies on
RECURSIVE MarkLines(_, _, _, _)
MarkLinesFound(lns, uniq, l, m, e) ==
  IF e # Size(uniq)
  THEN MarkLines(lns, uniq, l + 1,
                 [dirichletEdge |-> [m.dirichletEdge EXCEPT ![e] = TRUE],
                  nbc |-> m.nbc + 1])
  ELSE MarkLines(lns, uniq, l + 1, m)

MarkLinesUnsorted(lns, uniq, l, m) ==
  IF l >= Size(lns) THEN m
  ELSE MarkLinesFound(lns, uniq, l, m, Find(uniq, Vec2(lns[l][0], lns[l][1])))

MarkLines(lns, uniq, l, m) ==
  IF l >= Size(lns) THEN m
  ELSE MarkLinesFound(lns, uniq, l, m,
                      Find(uniq, sorted(lns[l][0], lns[l][1])))

\* v followed by w
Extend(v, w) ==
  v @@ [k \in Size(v)..(Size(v) + Size(w) - 1) |-> w[k - Size(v)]]

\* the lumped mass of a non-Dirichlet edge
LumpedMass(tris, occ) ==
  NumMul(Num(1, 3, 0),
         NumAdd(triangle_area(tris, occ[0] \div 3),
                triangle_area(tris, occ[1] \div 3)))

\* a non-Dirichlet edge whose coefficients sc were computed
AssembleInterior(tris, e, e2o, a, sc) ==
  [ok |-> TRUE,
   K_diag  |-> Extend(a.K_diag, sc.iv),
   K_coefs |-> Extend(a.K_coefs, sc.ijv),
   rhs  |-> a.rhs,
   Mass |-> [a.Mass EXCEPT ![2 * e] = LumpedMass(tris, e2o[e]),
                           ![2 * e + 1] = LumpedMass(tris, e2o[e])]]

AssembleDirichletHalf(e, a) ==
  [ok |-> TRUE,
   K_diag  |-> PushBack(a.K_diag, [i |-> 2 * e, val |-> One]),
   K_coefs |-> a.K_coefs,
   rhs  |-> [a.rhs EXCEPT ![2 * e] = One, ![2 * e + 1] = Zero],
   Mass |-> a.Mass]

\* a Dirichlet edge: theta_e = 0 => (cos4t/sin4t) = (1,0)
AssembleDirichlet(e, a) ==
  [ok |-> TRUE,
   K_diag  |-> PushBack(PushBack(a.K_diag, [i |-> 2 * e, val |-> One]),
                        [i |-> 2 * e + 1, val |-> One]),
   K_coefs |-> a.K_coefs,
   rhs  |-> [a.rhs EXCEPT ![2 * e] = One, ![2 * e + 1] = Zero],
   Mass |-> a.Mass]

\* the loop over the unique edges; it stops at the first edge whose
\* stiffness coefficients cannot be computed
RECURSIVE Assemble(_, _, _, _, _, _, _)
AssembleStiffness(tris, uniq, old2new, e2o, de, e, a, sc) ==
  IF ~sc.ok THEN [a EXCEPT !.ok = FALSE]
  ELSE Assemble(tris, uniq, old2new, e2o, de, e + 1,
                AssembleInterior(tris, e, e2o, a, sc))

Assemble(tris, uniq, old2new, e2o, de, e, a) ==
  IF e >= Size(uniq) THEN a
  ELSE IF ~de[e]
  THEN AssembleStiffness(tris, uniq, old2new, e2o, de, e, a,
                         stiffness_coefficient(tris, e, uniq, old2new, e2o))
  ELSE Assemble(tris, uniq, old2new, e2o, de, e + 1, AssembleDirichlet(e, a))

\* K_diag and K_coefs empty, rhs filled with 0., Mass with 1.
AssemblyStart(uniq) ==
  [ok |-> TRUE, K_diag |-> EmptyVec, K_coefs |-> EmptyVec,
   rhs  |-> [i \in 0..(2 * Size(uniq) - 1) |-> Zero],
   Mass |-> [i \in 0..(2 * Size(uniq) - 1) |-> One]]

\* emin*emin and emax*emax: the squares of the shortest and of the longest
\* length of a unique edge
EdgeLength2(uniq) == {length2(EdgeVector(uniq, e)) : e \in DOMAIN uniq}

SetMin(S) == CHOOSE m \in S : \A n \in S : m <= n

SetMax(S) == CHOOSE m \in S : \A n \in S : m >= n

(***************************************************************************)
(* compute_cross_field_with_heat: the diffusion loop                       *)
(***************************************************************************)
IterationsOfCaller(n) == IF n >= 2 THEN n ELSE 10

\* nbIter = 10, whatever the caller passed
Iterations(n) == 10

\* dt of iteration iter; iter and nbIter-1 are whole numbers, and so is
\* their quotient
Timestep(it, nb, dtInitial, dtFinal) ==
  NumAdd(dtInitial,
         NumMul(NumAdd(dtFinal, NumNeg(dtInitial)), I(it \div (nb - 1))))

OperatorRowDiffused(i, dt, de, Mass, Acol, Kval) ==
  [j \in DOMAIN Acol[i] |->
     IF Acol[i][j] = i
     THEN NumAdd(One, NumMul(NumDiv(dt, Mass[i]), Kval[i][j]))
     ELSE NumMul(NumDiv(dt, Mass[i]), Kval[i][j])]

\* Aval[i]: of a non-Dirichlet row 1 + dt/Mass*K on the diagonal and
\* dt/Mass*K off it, of a Dirichlet row {1.}
OperatorRow(i, dt, de, Mass, Acol, Kval) ==
  IF ~de[i \div 2]
  THEN [j \in DOMAIN Acol[i] |->
          IF Acol[i][j] = i
          THEN NumAdd(One, NumMul(NumDiv(dt, Mass[i]), Kval[i][j]))
          ELSE NumMul(NumDiv(dt, Mass[i]), Kval[i][j])]
  ELSE (0 :> One)

Operator(dt, de, Mass, Acol, Kval) ==
  [i \in DOMAIN Kval |-> OperatorRow(i, dt, de, Mass, Acol, Kval)]

\* the sum of vals[j] * y[cols[j]] over the entries j.. of a row, the
\* entry of column skip left out
RECURSIVE RowDot(_, _, _, _, _)
RowDot(cols, vals, y, j, skip) ==
  IF j >= Size(cols) \/ j >= Size(vals) THEN Zero
  ELSE IF cols[j] = skip THEN RowDot(cols, vals, y, j + 1, skip)
  ELSE NumAdd(NumMul(vals[j], y[cols[j]]), RowDot(cols, vals, y, j + 1, skip))

\* y solves the system exactly
IsSolution(Acol, Aval, B, y) ==
  \A i \in DOMAIN B :
    /\ Size(Acol[i]) = Size(Aval[i])
    /\ RowDot(Acol[i], Aval[i], y, 0, -1) = B[i]

\* a row with its diagonal entry only
Isolated(Acol, i) == Size(Acol[i]) = 1 /\ Acol[i][0] = i

\* the unknowns of the isolated rows, the right-hand side elsewhere
IsolatedSolved(Acol, Aval, B) ==
  [i \in DOMAIN B |->
     IF Isolated(Acol, i) THEN NumDiv(B[i], Aval[i][0]) ELSE B[i]]

\* the coefficient of x[i] in row i
Diagonal(cols, vals, i) ==
  IF \E j \in DOMAIN cols : cols[j] = i
  THEN vals[CHOOSE j \in DOMAIN cols : cols[j] = i]
  ELSE Zero

\* every row solved for its own unknown, the others taken from y; the
\* exact solution when every row is coupled to isolated rows only
Substitute(Acol, Aval, B, y) ==
  [i \in DOMAIN B |->
     NumDiv(NumAdd(B[i], NumNeg(RowDot(Acol[i], Aval[i], y, 0, i))),
            Diagonal(Acol[i], Aval[i], i))]

\* solve_sparse_linear_system(Acol, Aval, B, x): the outcomes of a call,
\* each the returned flag and the vector left in x.  A call fails, or
\* returns the solution by substitution, or returns the zero vector that
\* an iteration which makes no progress leaves.
solve_sparse_linear_system(Acol, Aval, B, x0) ==
  { [ok |-> FALSE, x |-> x0],
    [ok |-> TRUE,  x |-> Substitute(Acol, Aval, B, IsolatedSolved(Acol, Aval, B))],
    [ok |-> TRUE,  x |-> [i \in DOMAIN B |-> Zero]] }

\* std::sqrt of a number whose numerator and denominator are perfect
\* squares
NumSqrt(a) == IF a.d = 0 THEN NaN ELSE Num(ISqrt(a.n), ISqrt(a.d), 0)

\* std::sqrt(x[2*e]*x[2*e]+x[2*e+1]*x[2*e+1])
PairNorm(y, e) ==
  NumSqrt(NumAdd(NumMul(y[2 * e], y[2 * e]), NumMul(y[2 * e + 1], y[2 * e + 1])))

\* the pair of every non-Dirichlet edge whose norm is above EPS is divided
\* by its norm
Renormalize(y, de) ==
  [i \in DOMAIN y |->
     IF ~de[i \div 2] /\ AbsAboveEps(PairNorm(y, i \div 2))
     THEN NumDiv(y[i], PairNorm(y, i \div 2))
     ELSE y[i]]

(***************************************************************************)
(* compute_cross_field_with_heat: the outputs                              *)
(***************************************************************************)
\* create_view_with_crosses(name, ...): the two views it adds, each with
\* the number of its primitives that depend on x
create_view_with_crosses(vws, name, uniq, y) ==
  PushBack(PushBack(vws,
    [name |-> name, suffix |-> "",
     crosses |-> Cardinality({e \in DOMAIN uniq : AbsAboveEps(PairNorm(y, e))})]),
    [name |-> name, suffix |-> "_rep_planar",
     crosses |-> Cardinality({e \in DOMAIN uniq : AbsAboveEps(PairNorm(y, e))})])

\* theta: 1./4*atan2(x[2*e+1]/len, x[2*e]/len) when len > EPS, else 0.,
\* kept as the two arguments of atan2 (those of atan2(0, 1) = 0 for 0.)
EdgeAngle(y, e) ==
  IF AbsAboveEps(PairNorm(y, e))
  THEN [sin4 |-> NumDiv(y[2 * e + 1], PairNorm(y, e)),
        cos4 |-> NumDiv(y[2 * e], PairNorm(y, e))]
  ELSE [sin4 |-> Zero, cos4 |-> One]

EdgeKey(uniq, e) == <<uniq[e][0], uniq[e][1]>>

FillAnglesAboveEps(map, uniq, y) ==
  LET keys == {EdgeKey(uniq, e) : e \in {f \in DOMAIN uniq : AbsAboveEps(PairNorm(y, f))}}
  IN  [k \in (DOMAIN map) \cup keys |->
         IF k \in keys
         THEN EdgeAngle(y, CHOOSE e \in DOMAIN uniq : EdgeKey(uniq, e) = k)
         ELSE map[k]]

\* (*edge_to_angle)[make_pair(uIEdges[e][0], uIEdges[e][1])] = theta for
\* every unique edge; the other entries of the map are kept
FillAngles(map, uniq, y) ==
  LET keys == {EdgeKey(uniq, e) : e \in DOMAIN uniq}
  IN  [k \in (DOMAIN map) \cup keys |->
         IF k \in keys
         THEN EdgeAngle(y, CHOOSE e \in DOMAIN uniq : EdgeKey(uniq, e) = k)
         ELSE map[k]]

(***************************************************************************)
(* State.                                                                  *)
(***************************************************************************)
VARIABLES
  pc,                     \* position of the modelled call
  triangles,              \* M.triangles
  triangle_neighbors,     \* M.triangle_neighbors
  nm_triangle_neighbors,  \* M.nm_triangle_neighbors
  uIEdges, old2IEdge, uIEdgeToOld,
  oka,                    \* value returned by compute_triangle_adjacencies
  K_diag, K_coefs,        \* diagonal seeds and coupling entries
  K_columns, K_values,    \* the row-compressed system
  lines,                  \* M.lines
  nbIterArg,              \* the nbIter the caller passed
  has_map,                \* the caller passed an edge_to_angle
  edge_to_angle,          \* the caller's map
  map_at_call,            \* the caller's map as it was at the call
  nbIter,                 \* the local nbIter
  dirichletEdge, nbc,
  rhs, Mass,
  dtInitial, dtFinal,
  x,                      \* the unknowns
  iter,                   \* the iterations that were completed
  dt,                     \* the timestep of the last iteration
  views,                  \* the views added to gmsh
  errorLog,               \* the errors logged
  ret,                    \* the value returned
  solveCalls,             \* the calls of the solver that returned
  renormCalls,            \* the renormalizations
  exact                   \* every call of the solver returned a solution

adjVars == <<triangles, triangle_neighbors, nm_triangle_neighbors,
             uIEdges, old2IEdge, uIEdgeToOld, oka>>

prepVars == <<K_diag, K_coefs, K_columns, K_values>>

inVars == <<lines, nbIterArg, has_map, map_at_call>>

drvVars == <<edge_to_angle, nbIter, dirichletEdge, nbc, rhs, Mass, dtInitial,
             dtFinal, x, iter, dt, views, errorLog, ret, solveCalls,
             renormCalls, exact>>

vars == <<pc, adjVars, prepVars, inVars, drvVars>>

\* all vectors over S of length at most n
VecsUpTo(S, n) == UNION {[0..(k - 1) -> S] : k \in 0..n}

AdjIdle ==
  /\ triangles = EmptyVec
  /\ triangle_neighbors = EmptyVec
  /\ nm_triangle_neighbors = EmptyVec
  /\ uIEdges = EmptyVec
  /\ old2IEdge = EmptyVec
  /\ uIEdgeToOld = EmptyVec
  /\ oka = FALSE

PrepIdle ==
  /\ K_diag = EmptyVec
  /\ K_coefs = EmptyVec
  /\ K_columns = EmptyVec
  /\ K_values = EmptyVec

\* the driver before it has computed anything
DrvBlank ==
  /\ nbIter = nbIterArg
  /\ dirichletEdge = EmptyVec
  /\ nbc = 0
  /\ rhs = EmptyVec
  /\ Mass = EmptyVec
  /\ dtInitial = Zero
  /\ dtFinal = Zero
  /\ x = EmptyVec
  /\ iter = 0
  /\ dt = Zero
  /\ views = EmptyVec
  /\ errorLog = EmptyVec
  /\ ret = "none"
  /\ solveCalls = 0
  /\ renormCalls = 0
  /\ exact = TRUE

DrvIdle ==
  /\ lines = EmptyVec
  /\ nbIterArg = 0
  /\ has_map = FALSE
  /\ edge_to_angle = EmptyVec
  /\ map_at_call = EmptyVec
  /\ DrvBlank

(***************************************************************************)
(* Specification of the adjacency builder alone: any triangle soup over    *)
(* the ids 0..MaxVtx-1 and the sentinel, each triangle listed with          *)
(* ascending ids, the soup in ascending order.                             *)
(***************************************************************************)
AdjIds == 0..(MaxVtx - 1) \cup {NO_ID}

AdjTriPool == {t \in [0..2 -> AdjIds] : t[0] <= t[1] /\ t[1] <= t[2]}

TriLeq(s, t) ==
  \/ s[0] < t[0]
  \/ s[0] = t[0] /\ s[1] < t[1]
  \/ s[0] = t[0] /\ s[1] = t[1] /\ s[2] <= t[2]

RECURSIVE AscendingSoups(_)
AscendingSoups(n) ==
  IF n = 0 THEN {EmptyVec}
  ELSE LET prev == AscendingSoups(n - 1)
       IN  prev \cup
           {PushBack(q[1], q[2]) :
              q \in {q \in {p \in prev : Size(p) = n - 1} \X AdjTriPool :
                       n = 1 \/ TriLeq(q[1][n - 2], q[2])}}

AdjInputs == AscendingSoups(MaxTris)

AdjInit ==
  /\ pc = "adj_start"
  /\ triangles \in AdjInputs
  /\ triangle_neighbors = EmptyVec
  /\ nm_triangle_neighbors = EmptyVec
  /\ uIEdges = EmptyVec
  /\ old2IEdge = EmptyVec
  /\ uIEdgeToOld = EmptyVec
  /\ oka = FALSE
  /\ PrepIdle
  /\ DrvIdle

StoreAdjacencies(r) ==
  /\ triangle_neighbors' = r.triangle_neighbors
  /\ nm_triangle_neighbors' = r.nm_triangle_neighbors
  /\ uIEdges' = r.uIEdges
  /\ old2IEdge' = r.old2IEdge
  /\ uIEdgeToOld' = r.uIEdgeToOld
  /\ oka' = r.ok

ComputeAdjacencies ==
  /\ pc = "adj_start"
  /\ StoreAdjacencies(compute_triangle_adjacencies(triangles, uIEdgeToOld))
  /\ pc' = "adj_done"
  /\ UNCHANGED <<triangles, prepVars, inVars, drvVars>>

AdjNext == ComputeAdjacencies

SpecAdj == AdjInit /\ [][AdjNext]_vars

(***************************************************************************)
(* Specification of the system compactor alone: any non-empty collection   *)
(* of coupling entries and unit diagonal seeds over PrepDim unknowns, the  *)
(* output rows initially empty.                                            *)
(***************************************************************************)
PrepVals == {One, MinusOne, EPS}

\* the unknowns of the system: the two of one edge
PrepDim == 2

PrepCoefPool == [ij : [0..1 -> 0..(PrepDim - 1)], val : PrepVals]

PrepDiagPool == [i : 0..(PrepDim - 1), val : {One}]

PrepInit ==
  /\ pc = "prep_start"
  /\ K_coefs \in VecsUpTo(PrepCoefPool, MaxCoefs)
  /\ K_diag \in VecsUpTo(PrepDiagPool, MaxDiag)
  /\ Size(K_coefs) + Size(K_diag) > 0
  /\ K_columns = [i \in 0..(PrepDim - 1) |-> EmptyVec]
  /\ K_values = [i \in 0..(PrepDim - 1) |-> EmptyVec]
  /\ AdjIdle
  /\ DrvIdle

StoreSystem(r) ==
  /\ K_columns' = r.columns
  /\ K_values' = r.values

PrepareSystem ==
  /\ pc = "prep_start"
  /\ StoreSystem(prepare_system(K_diag, K_coefs, K_columns, K_values))
  /\ pc' = "prep_done"
  /\ UNCHANGED <<K_diag, K_coefs, adjVars, inVars, drvVars>>

PrepNext == PrepareSystem

SpecPrep == PrepInit /\ [][PrepNext]_vars

(***************************************************************************)
(* Specification of compute_cross_field_with_heat: a call on a mesh whose  *)
(* points are the corners of the unit square, with at most DrvMaxTris      *)
(* triangles and DrvMaxLines lines.  The body up to the loop is one step,  *)
(* each iteration of the loop is one, and so is the code after the loop.   *)
(***************************************************************************)
\* proper triangles of either orientation, a triangle with a repeated
\* vertex, and a triangle that refers to the id NO_ID
DrvTriPool ==
  {Vec3(0, 1, 2), Vec3(0, 2, 3), Vec3(0, 1, 3), Vec3(1, 2, 3), Vec3(0, 3, 2),
   Vec3(0, 1, 1), Vec3(0, 1, NO_ID)}

RECURSIVE DrvSoups(_)
DrvSoups(n) ==
  IF n = 0 THEN {EmptyVec}
  ELSE LET prev == DrvSoups(n - 1)
       IN  prev \cup
           {PushBack(q[1], q[2]) :
              q \in {q \in {p \in prev : Size(p) = n - 1} \X DrvTriPool :
                       n = 1 \/ TriLeq(q[1][n - 2], q[2])}}

\* triangles with the point (2,0,0): one whose three vertices lie on a line,
\* and two on either side of the edge (3,4), which is not at a multiple of
\* 45 degrees to their other edges: the right triangle below it and the
\* obtuse triangle above it
DrvWidePool == {Vec3(0, 1, 4), Vec3(0, 4, 3), Vec3(2, 3, 4)}

\* the meshes of a call: the soups over the square, and the ascending
\* non-empty soups of the triangles with the point (2,0,0)
DrvMeshes ==
  DrvSoups(DrvMaxTris) \cup
  {s \in VecsUpTo(DrvWidePool, DrvMaxTris) :
     /\ Size(s) > 0
     /\ \A k \in 1..(Size(s) - 1) : TriLeq(s[k - 1], s[k])}

\* a line on a diagonal of the square, given with descending ids, and a
\* line on a side: edges of some of the meshes and of others not
DrvLinePool == {Vec2(2, 0), Vec2(0, 1)}

\* an angle left in the caller's map by an earlier call
StaleAngle == [sin4 |-> One, cos4 |-> Zero]

StaleMap == (<<0, 1>> :> StaleAngle) @@ (<<2, 5>> :> StaleAngle)

\* the nbIter and the edge_to_angle of a call
DrvCalls ==
  {[nbIter |-> -1, has_map |-> FALSE, map |-> EmptyVec],
   [nbIter |-> 0,  has_map |-> TRUE,  map |-> EmptyVec],
   [nbIter |-> 3,  has_map |-> TRUE,  map |-> StaleMap]}

DrvInit ==
  /\ pc = "start"
  /\ triangles \in DrvMeshes
  /\ triangle_neighbors = EmptyVec
  /\ nm_triangle_neighbors = EmptyVec
  /\ uIEdges = EmptyVec
  /\ old2IEdge = EmptyVec
  /\ uIEdgeToOld = EmptyVec
  /\ oka = FALSE
  /\ PrepIdle
  /\ lines \in VecsUpTo(DrvLinePool, DrvMaxLines)
  /\ \E c \in DrvCalls :
       /\ nbIterArg = c.nbIter
       /\ has_map = c.has_map
       /\ edge_to_angle = c.map
       /\ map_at_call = c.map
  /\ DrvBlank

\* the locals before the loop, as they are when the body returns or enters
\* the loop; err is the error of the return, "" when there is none
SetupBlank ==
  [err |-> "", dirichletEdge |-> EmptyVec, nbc |-> 0,
   K_diag |-> EmptyVec, K_coefs |-> EmptyVec, rhs |-> EmptyVec,
   Mass |-> EmptyVec, K_columns |-> EmptyVec, K_values |-> EmptyVec,
   dtInitial |-> Zero, dtFinal |-> Zero]

SetupSystem(s, uniq, sys) ==
  [s EXCEPT !.K_columns = sys.columns,
            !.K_values = sys.values,
            !.dtFinal = I(SetMin(EdgeLength2(uniq))),
            !.dtInitial = I(SetMax(EdgeLength2(uniq)))]

SetupAssembled(s, uniq, a) ==
  IF ~a.ok
  THEN [s EXCEPT !.err = "failed to compute stiffness matrix coefficients",
                 !.K_diag = a.K_diag, !.K_coefs = a.K_coefs,
                 !.rhs = a.rhs, !.Mass = a.Mass]
  ELSE SetupSystem([s EXCEPT !.K_diag = a.K_diag, !.K_coefs = a.K_coefs,
                             !.rhs = a.rhs, !.Mass = a.Mass],
                   uniq,
                   prepare_system(a.K_diag, a.K_coefs,
                                  [i \in 0..(2 * Size(uniq) - 1) |-> EmptyVec],
                                  [i \in 0..(2 * Size(uniq) - 1) |-> EmptyVec]))

SetupMarked(tris, r, s, m) ==
  SetupAssembled([s EXCEPT !.dirichletEdge = m.dirichletEdge, !.nbc = m.nbc],
                 r.uIEdges,
                 Assemble(tris, r.uIEdges, r.old2IEdge, r.uIEdgeToOld,
                          m.dirichletEdge, 0, AssemblyStart(r.uIEdges)))

SetupAdjacent(tris, lns, r, s) ==
  IF ~r.ok THEN [s EXCEPT !.err = "failed to compute mesh adjacencies"]
  ELSE IF Size(r.uIEdges) = 0 THEN [s EXCEPT !.err = "no internal edges"]
  ELSE SetupMarked(tris, r, s,
                   MarkLines(lns, r.uIEdges, 0, MarkBoundary(r.uIEdgeToOld)))

SetupStore(s) ==
  /\ dirichletEdge' = s.dirichletEdge
  /\ nbc' = s.nbc
  /\ K_diag' = s.K_diag
  /\ K_coefs' = s.K_coefs
  /\ rhs' = s.rhs
  /\ Mass' = s.Mass
  /\ K_columns' = s.K_columns
  /\ K_values' = s.K_values
  /\ dtInitial' = s.dtInitial
  /\ dtFinal' = s.dtFinal
  /\ IF s.err = ""
     THEN /\ x' = s.rhs
          /\ nbIter' = Iterations(nbIter)
          /\ pc' = "loop"
          /\ UNCHANGED <<errorLog, ret>>
     ELSE /\ errorLog' = PushBack(errorLog, s.err)
          /\ ret' = "false"
          /\ pc' = "failed"
          /\ UNCHANGED <<x, nbIter>>

SetupAdjacencies(r) ==
  /\ StoreAdjacencies(r)
  /\ SetupStore(SetupAdjacent(triangles, lines, r, SetupBlank))

\* from the entry of the function to the entry of the loop
Setup ==
  /\ pc = "start"
  /\ SetupAdjacencies(compute_triangle_adjacencies(triangles, uIEdgeToOld))
  /\ UNCHANGED <<triangles, inVars, edge_to_angle, iter, dt, views,
                 solveCalls, renormCalls, exact>>

IterateSolved(Aval, o) ==
  IF ~o.ok
  THEN /\ errorLog' = PushBack(errorLog, "failed to solve linear system")
       /\ ret' = "false"
       /\ pc' = "failed"
       /\ UNCHANGED <<x, iter, renormCalls, exact>>
  ELSE /\ x' = Renormalize(o.x, dirichletEdge)
       /\ iter' = iter + 1
       /\ renormCalls' = renormCalls + 1
       /\ exact' = (exact /\ IsSolution(K_columns, Aval, x, o.x))
       /\ UNCHANGED <<errorLog, ret, pc>>

IterateOperator(Aval) ==
  \E o \in solve_sparse_linear_system(K_columns, Aval, x, x) :
    IterateSolved(Aval, o)

IterateTimestep(t) ==
  /\ dt' = t
  /\ IterateOperator(Operator(t, dirichletEdge, Mass, K_columns, K_values))

\* one iteration of the loop: the operator is built, the system is solved
\* and the unknowns are renormalized
Iterate ==
  /\ pc = "loop"
  /\ iter < nbIter
  /\ IterateTimestep(Timestep(iter, nbIter, dtInitial, dtFinal))
  /\ solveCalls' = solveCalls + 1
  /\ UNCHANGED <<adjVars, prepVars, inVars, edge_to_angle, nbIter,
                 dirichletEdge, nbc, rhs, Mass, dtInitial, dtFinal, views>>

\* from the exit of the loop to the return
Finish ==
  /\ pc = "loop"
  /\ ~(iter < nbIter)
  /\ views' = create_view_with_crosses(views, "crosses", uIEdges, x)
  /\ edge_to_angle' = IF has_map THEN FillAngles(edge_to_angle, uIEdges, x)
                      ELSE edge_to_angle
  /\ ret' = "true"
  /\ pc' = "done"
  /\ UNCHANGED <<adjVars, prepVars, inVars, nbIter, dirichletEdge, nbc, rhs,
                 Mass, dtInitial, dtFinal, x, iter, dt, errorLog, solveCalls,
                 renormCalls, exact>>

Next == Setup \/ Iterate \/ Finish

Spec == DrvInit /\ [][Next]_vars

(***************************************************************************)
(* Claims about the adjacency builder.  The occurrences of an edge are    *)
(* read off the triangle soup itself, not off the tables the function      *)
(* builds.                                                                 *)
(***************************************************************************)
FaceOf(t, lf) == sorted(triangles[t][lf], triangles[t][(lf + 1) % NBF])

EdgeSet == {FaceOf(t, lf) : <<t, lf>> \in (DOMAIN triangles) \X (0..2)}

\* the (triangle, local edge) occurrences of edge f
Occ(f) == {o \in (DOMAIN triangles) \X (0..2) : FaceOf(o[1], o[2]) = f}

Slot(o) == triangle_neighbors[o[1]][o[2]]

Packed(o) == NBF * o[1] + o[2]

AdjReturned == pc = "adj_done"

\* C1: after compute_triangle_adjacencies returns true, the two slots of
\* every edge with exactly two occurrences hold each other's packed id.
C1_AdjacencySymmetric ==
  (AdjReturned /\ oka) =>
    \A f \in EdgeSet :
      Cardinality(Occ(f)) = 2 =>
        \A a, b \in Occ(f) : a # b => Slot(a) = Packed(b)

C1_Witness ==
  /\ AdjReturned /\ oka
  /\ \E f \in EdgeSet :
       /\ Cardinality(Occ(f)) = 2
       /\ \E a, b \in Occ(f) : a[1] # b[1] /\ a[2] # b[2]

ThreeShare(f) ==
  /\ Cardinality(Occ(f)) = 3
  /\ Cardinality({o[1] : o \in Occ(f)}) = 3

NmIndex(o) == -Slot(o) - 1

NegativeDistinct(f) ==
  /\ \A o \in Occ(f) : Slot(o) < 0 /\ NmIndex(o) \in DOMAIN nm_triangle_neighbors
  /\ \A a, b \in Occ(f) : a # b => Slot(a) # Slot(b)

\* C3 as stated: an edge shared by three triangles resolves to a neighbor
\* list entry of size 3, each of the three slots holding a distinct
\* negative-encoded index.
C3_Original ==
  (AdjReturned /\ oka) =>
    \A f \in EdgeSet :
      (ThreeShare(f) /\ f[0] # f[1]) =>
        /\ NegativeDistinct(f)
        /\ \A o \in Occ(f) : Size(nm_triangle_neighbors[NmIndex(o)]) = 3

\* C3 amended: an edge shared by three triangles resolves to three entries
\* of nm_triangle_neighbors, one per occurrence, each of size 2 and listing
\* the packed ids of the two sibling occurrences; each of the three slots
\* holds a distinct negative-encoded index -(pos+1) of its own entry.
C3_NonManifoldEntries ==
  (AdjReturned /\ oka) =>
    \A f \in EdgeSet :
      ThreeShare(f) =>
        /\ NegativeDistinct(f)
        /\ \A o \in Occ(f) :
             /\ Size(nm_triangle_neighbors[NmIndex(o)]) = 2
             /\ {nm_triangle_neighbors[NmIndex(o)][k] : k \in 0..1}
                  = {Packed(s) : s \in Occ(f) \ {o}}

C3_Witness ==
  /\ AdjReturned /\ oka
  /\ \E f \in EdgeSet : ThreeShare(f)

HalfSentinel(f) == (f[0] = NO_ID) # (f[1] = NO_ID)

RECURSIVE SumCoefs(_, _, _)
SumCoefs(k, i, j) ==
  IF k >= Size(K_coefs) THEN Zero
  ELSE IF K_coefs[k].ij[0] = i /\ K_coefs[k].ij[1] = j
  THEN NumAdd(K_coefs[k].val, SumCoefs(k + 1, i, j))
  ELSE SumCoefs(k + 1, i, j)

\* the sum of the diagonal seeds k.. of unknown i
RECURSIVE SumDiag(_, _)
SumDiag(k, i) ==
  IF k >= Size(K_diag) THEN Zero
  ELSE IF K_diag[k].i = i
  THEN NumAdd(K_diag[k].val, SumDiag(k + 1, i))
  ELSE SumDiag(k + 1, i)

\* the summed contributions to (i, j): coupling entries plus diagonal seeds
Contribution(i, j) ==
  IF i = j THEN NumAdd(SumCoefs(0, i, j), SumDiag(0, i)) ELSE SumCoefs(0, i, j)

HasContribution(i, j) ==
  \/ \E k \in DOMAIN K_coefs : K_coefs[k].ij[0] = i /\ K_coefs[k].ij[1] = j
  \/ \E k \in DOMAIN K_diag : K_diag[k].i = i /\ i = j

PrepReturned == pc = "prep_done"

\* C10: for a non-empty input and empty output rows, every row of the
\* result lists its columns in strictly ascending order, with exactly one
\* pair for each (row, column) whose summed contributions exceed EPS in
\* absolute value, carrying that sum, and no other pair.
C10_CompactedRows ==
  PrepReturned =>
    \A i \in DOMAIN K_columns :
      /\ DOMAIN K_values[i] = DOMAIN K_columns[i]
      /\ \A p, q \in DOMAIN K_columns[i] :
           p < q => K_columns[i][p] < K_columns[i][q]
      /\ \A p \in DOMAIN K_columns[i] :
           /\ HasContribution(i, K_columns[i][p])
           /\ AbsAboveEps(Contribution(i, K_columns[i][p]))
           /\ K_values[i][p] = Contribution(i, K_columns[i][p])
      /\ \A j \in DOMAIN K_columns :
           (HasContribution(i, j) /\ AbsAboveEps(Contribution(i, j))) =>
             \E p \in DOMAIN K_columns[i] : K_columns[i][p] = j

\* the coupling entries of a row given out of column order, a coupling
\* entry and a diagonal seed of the same (row, column) summed and the sum
\* dropped, another pair kept
C10_Witness ==
  /\ PrepReturned
  /\ \E k, m \in DOMAIN K_coefs :
       /\ k < m
       /\ K_coefs[k].ij[0] = K_coefs[m].ij[0]
       /\ K_coefs[k].ij[1] > K_coefs[m].ij[1]
  /\ \E i \in DOMAIN K_columns :
       /\ SumCoefs(0, i, i) # Zero
       /\ SumDiag(0, i) # Zero
       /\ ~AbsAboveEps(Contribution(i, i))
  /\ \E i \in DOMAIN K_columns : Size(K_columns[i]) > 0

(***************************************************************************)
(* Claims about the driver.                                                *)
(***************************************************************************)
DirichletEdges == {e \in DOMAIN dirichletEdge : dirichletEdge[e]}

\* the function has entered the loop: x holds the unknowns
InLoop == pc \in {"loop", "done"}

\* C4: after every diffusion iteration, the solver having returned the exact
\* solution of the system in every iteration so far, the unknown pair
\* (x[2e], x[2e+1]) of every Dirichlet edge e is exactly (1, 0), as it was
\* when the loop was entered.
C4_DirichletPinned ==
  InLoop /\ exact =>
    \A e \in DirichletEdges : x[2 * e] = One /\ x[2 * e + 1] = Zero

\* iterations have run with an exact solver on a mesh that has Dirichlet
\* edges and edges that are solved for, and the unknowns have moved
C4_Witness ==
  /\ pc = "loop"
  /\ iter >= 2
  /\ exact
  /\ x # rhs
  /\ DirichletEdges # {}
  /\ DirichletEdges # DOMAIN dirichletEdge

VertexSet(t) == {triangles[t][0], triangles[t][1], triangles[t][2]}

\* the mesh of scenario A: two triangles that cover the square and share
\* one of its diagonals, and no line
ScenarioA ==
  /\ lines = EmptyVec
  /\ Size(triangles) = 2
  /\ Cardinality(VertexSet(0)) = 3
  /\ Cardinality(VertexSet(1)) = 3
  /\ VertexSet(0) \cup VertexSet(1) = 0..3
  /\ VertexSet(0) \cap VertexSet(1) \in {{0, 2}, {1, 3}}

\* C5, as stated: on the mesh of scenario A no Dirichlet edge is resolved
\* and the function returns failure without running the diffusion loop.
C5_Original ==
  ScenarioA /\ pc # "start" =>
    /\ DirichletEdges = {}
    /\ nbc = 0
    /\ ret = "false"
    /\ solveCalls = 0

\* C5, amended: on the mesh of scenario A the four sides of the square are
\* resolved as Dirichlet edges, the shared diagonal is the one edge that is
\* solved for, the assembly succeeds and the loop is entered; the function
\* returns failure only when a call of the solver fails.
C5_ScenarioARuns ==
  ScenarioA /\ pc # "start" =>
    /\ nbc = 4
    /\ Cardinality(DirichletEdges) = 4
    /\ \A e \in DOMAIN uIEdges :
         ~dirichletEdge[e] <=>
           {uIEdges[e][0], uIEdges[e][1]} = VertexSet(0) \cap VertexSet(1)
    /\ pc \in {"loop", "done", "failed"}
    /\ pc = "failed" =>
         /\ solveCalls >= 1
         /\ errorLog = (0 :> "failed to solve linear system")

\* the call on the mesh of scenario A has returned true
C5_Witness == ScenarioA /\ pc = "done" /\ ret = "true" /\ solveCalls = 10

\* C6, as stated: the timestep of iteration k is
\* dtInitial + (dtFinal - dtInitial) * k/9, with dtInitial the square of the
\* longest and dtFinal the square of the shortest edge length.
C6_Original ==
  solveCalls >= 1 =>
    /\ dtInitial = I(SetMax(EdgeLength2(uIEdges)))
    /\ dtFinal = I(SetMin(EdgeLength2(uIEdges)))
    /\ NumMul(I(9), dt) =
         NumAdd(NumMul(I(9), dtInitial),
                NumMul(NumAdd(dtFinal, NumNeg(dtInitial)), I(solveCalls - 1)))

\* C7: when the assembly succeeds and no call of the solver fails, the
\* function returns after exactly 10 iterations, that is 10 calls of the
\* solver, each followed by one renormalization, whatever nbIter the caller
\* passed: in the loop the count is 10 and the iterations that were
\* completed are at most as many, so that an iteration or the exit is next.
C7_TenIterations ==
  /\ solveCalls <= 10
  /\ pc = "loop" =>
       nbIter = 10 /\ iter <= nbIter /\ iter = solveCalls /\ renormCalls = solveCalls
  /\ pc = "done" => iter = 10 /\ solveCalls = 10 /\ renormCalls = 10

\* a call with a negative nbIter has returned true
C7_Witness == pc = "done" /\ nbIterArg < 0 /\ solveCalls = 10

FinalViews == {v \in DOMAIN views : views[v].name = "crosses"}

\* C8: there is no partial success.  When the function has returned false
\* (or has not returned yet), the caller's edge_to_angle is as it was at the
\* call and no final "crosses" view was added, and after a failure nothing
\* runs any more; when it has returned true, all the iterations were
\* completed and a supplied edge_to_angle has an entry for every unique edge.
C8_NoPartialSuccess ==
  /\ ret # "true" => edge_to_angle = map_at_call /\ FinalViews = {}
  /\ ret = "false" <=> pc = "failed"
  /\ pc = "failed" => ~ENABLED Next
  /\ ret = "true" <=> pc = "done"
  /\ ret = "true" =>
       /\ iter = nbIter
       /\ solveCalls = 10
       /\ FinalViews # {}
       /\ has_map =>
            \A e \in DOMAIN uIEdges : EdgeKey(uIEdges, e) \in DOMAIN edge_to_angle

\* the solver has failed after some iterations were completed, the caller
\* having supplied a map that is not empty
C8_Witness ==
  /\ ret = "false"
  /\ iter >= 1
  /\ solveCalls = iter + 1
  /\ has_map
  /\ DOMAIN map_at_call # {}

(***************************************************************************)
(* Claims about the assembly.                                              *)
(***************************************************************************)
\* the edges have been marked: the adjacencies were computed and there are
\* unique edges
Marked == pc # "start" /\ oka /\ Size(uIEdges) > 0

\* an incident triangle of edge e has a normal shorter than EPS
DegenerateIncident(e) ==
  \E s \in DOMAIN uIEdgeToOld[e] :
    triangle_normal(triangles, uIEdgeToOld[e][s] \div 3).small

\* C11, as stated: when an incident triangle of a non-Dirichlet edge is
\* degenerate, the function returns false from the assembly, before any
\* call of the solver.
C11_Original ==
  Marked /\ (\E e \in DOMAIN uIEdges : ~dirichletEdge[e] /\ DegenerateIncident(e)) =>
    /\ pc = "failed"
    /\ solveCalls = 0
    /\ errorLog = (0 :> "failed to compute stiffness matrix coefficients")

\* stiffness_coefficient returns true for edge e of the mesh of the call
StiffnessOk(e) ==
  stiffness_coefficient(triangles, e, uIEdges, old2IEdge, uIEdgeToOld).ok

\* the term of edge e for the k-th other edge of its incident triangle s
TermOf(e, s, k) ==
  NeighborTerm(triangles, uIEdges, old2IEdge, uIEdgeToOld[e], e, s, k)

\* isum of edge e
TotalOf(e) ==
  StiffnessSum(TermOf(e, 0, 0), TermOf(e, 0, 1), TermOf(e, 1, 0), TermOf(e, 1, 1))

\* the sum of the four normalized weights of edge e
NormalizedTotal(e) ==
  NumAdd(NumAdd(NumAdd(NormalizedWeight(TermOf(e, 0, 0), TotalOf(e)),
                       NormalizedWeight(TermOf(e, 0, 1), TotalOf(e))),
                NormalizedWeight(TermOf(e, 1, 0), TotalOf(e))),
         NormalizedWeight(TermOf(e, 1, 1), TotalOf(e)))

\* C12, as stated: for every interior edge for which stiffness_coefficient
\* returns true, the total of the four raw weights is a non-zero number and
\* the four normalized weights sum to exactly -1.
C12_Original ==
  Marked =>
    \A e \in DOMAIN uIEdges :
      ~dirichletEdge[e] /\ StiffnessOk(e) =>
        /\ TotalOf(e) # NaN
        /\ TotalOf(e) # Zero
        /\ NormalizedTotal(e) = MinusOne

(***************************************************************************)
(* Claims about the stored angles.                                         *)
(***************************************************************************)
\* theta = 1./4*atan2(a.sin4, a.cos4) is negative: atan2 is negative
\* exactly when its first argument is
NegativeAngle(a) == a.sin4.n < 0 \/ (a.sin4.n = 0 /\ a.sin4.e < 0)

\* C13, as stated: every angle that the function stores in edge_to_angle
\* lies in [0, 2*pi): none of them is negative.
C13_Original ==
  pc = "done" /\ has_map =>
    \A e \in DOMAIN uIEdges : ~NegativeAngle(edge_to_angle[EdgeKey(uIEdges, e)])

(***************************************************************************)
(* Claims about the boundary conditions.                                   *)
(***************************************************************************)
\* line l of the mesh lies on unique edge e
LineOn(l, e) == sorted(lines[l][0], lines[l][1]) = uIEdges[e]

\* C14: a unique edge is a Dirichlet edge exactly when it has not two
\* occurrences or a line of the mesh lies on it, whichever way round the
\* line gives its vertices; so every edge stiffness_coefficient is called
\* for has two occurrences, and the only error of the assembly is that of
\* an edge whose coefficients cannot be computed: a line that lies on no
\* unique edge changes nothing.
C14_DirichletMarking ==
  Marked =>
    /\ \A e \in DOMAIN uIEdges :
         dirichletEdge[e] <=>
           (Size(uIEdgeToOld[e]) # 2 \/ \E l \in DOMAIN lines : LineOn(l, e))
    /\ \A e \in DOMAIN uIEdges : ~dirichletEdge[e] => Size(uIEdgeToOld[e]) = 2
    /\ solveCalls = 0 /\ pc = "failed" =>
         /\ errorLog = (0 :> "failed to compute stiffness matrix coefficients")
         /\ \E e \in DOMAIN uIEdges : ~dirichletEdge[e] /\ ~StiffnessOk(e)
    /\ pc = "loop" /\ iter = 0 => errorLog = EmptyVec

\* the call has returned true for a mesh with an edge of two occurrences
\* that is a Dirichlet edge because a line given with descending ids lies
\* on it, and with an edge that is not a Dirichlet edge
C14_Witness ==
  /\ pc = "done"
  /\ \E e \in DOMAIN uIEdges :
       /\ Size(uIEdgeToOld[e]) = 2
       /\ dirichletEdge[e]
       /\ \E l \in DOMAIN lines : LineOn(l, e) /\ lines[l][0] > lines[l][1]
  /\ \E e \in DOMAIN uIEdges : ~dirichletEdge[e]

(***************************************************************************)
(* Claims about the system of an iteration.                                *)
(***************************************************************************)
\* Aval of the iteration that is about to run
NextAval ==
  Operator(Timestep(iter, nbIter, dtInitial, dtFinal),
           dirichletEdge, Mass, K_columns, K_values)

\* the system of the iteration that is about to run is well-formed
WellFormedSystem ==
  pc = "loop" /\ iter < nbIter =>
    /\ DOMAIN NextAval = 0..(2 * Size(uIEdges) - 1)
    /\ DOMAIN K_columns = DOMAIN NextAval
    /\ \A i \in DOMAIN NextAval :
         /\ Size(K_columns[i]) = Size(NextAval[i])
         /\ dirichletEdge[i \div 2] =>
              K_columns[i] = (0 :> i) /\ NextAval[i] = (0 :> One)

\* C15: in every iteration the rows of Acol and Aval handed to the solver
\* have equal lengths, every Dirichlet row has its diagonal as its only
\* column, with value 1, and the iteration leaves K_columns and K_values as
\* they were.
C15_WellFormedSystem ==
  /\ []WellFormedSystem
  /\ [][pc = "loop" => K_columns' = K_columns /\ K_values' = K_values]_vars

\* the last iteration is about to run on a system with a Dirichlet row and
\* with a row of several columns
C15_Witness ==
  /\ pc = "loop"
  /\ iter = nbIter - 1
  /\ solveCalls = iter
  /\ \E i \in DOMAIN K_columns : dirichletEdge[i \div 2]
  /\ \E i \in DOMAIN K_columns : ~dirichletEdge[i \div 2] /\ Size(K_columns[i]) > 1

====
